---- MODULE Spec2Model ----
(***************************************************************************)
(* Shield of Athena: the grid ledger (StateManager), the donation flow     *)
(* (DonationModal.handleSubmit), and the pointer / paint interaction of    *)
(* the GridRenderer, as one state machine.                                 *)
(*                                                                         *)
(* Time is the value of Date.now(), in units of one tick; a synchronous    *)
(* handler runs at one clock value.  Pointer events are given by the grid  *)
(* cell screenToGrid yields for them.                                      *)
(***************************************************************************)
EXTENDS Integers, Sequences, FiniteSets, TLC

\* ------------------------------------------------------------------ bounds
GridSize == 2
\* the rows of the grid that pointer events and direct calls address
InputRows == 1
LockDuration == 1
MaxTime == 2
MaxTxn == 2
\* bits of a number's significand (53 in the program's IEEE-754 doubles)
MantissaBits == 12
\* changes of the camera followed in one behavior
MaxCameraOps == 4

\* --------------------------------------------------------------- constants
Colors == {"#FF0000", "#00FF00"}
DefaultColor == "#f5f5f5"
Email == "donor@example.org"
UndefinedListeners == "undefined"
NoKey == <<-9, -9>>

Coords == (0 .. GridSize - 1) \X (0 .. GridSize - 1)
\* cells a pointer event can resolve to: the grid and one off-grid cell
InputCells == {k \in Coords : k[2] < InputRows}
PointerCells == InputCells \cup {<<-1, -1>>}
EmptyGrid == [k \in {} |-> 0]

VARIABLES
    now,              \* Date.now()
    grid,             \* StateManager.grid: key -> square
    stored,           \* localStorage[storageKey], parsed
    ownership,        \* StateManager.ownership, in key insertion order
    storedOwnership,  \* localStorage[ownershipKey], parsed
    listeners,        \* StateManager.listeners
    shape,            \* what this.grid / this.ownership are: an object, or what JSON.parse gave
    selectedSquares,  \* GridRenderer.selectedSquares
    selectionStart,   \* GridRenderer.selectionStart (NoKey = null)
    isDragging, isSelecting, isPainting,
    isPaintMode, isEraseMode, paintColor,
    needsRedraw,      \* GridRenderer.needsRedraw
    modal,            \* DonationModal.modal: "none", "form", "processing", "success"
    modalSquares,     \* the squares the open modal was created for
    pending,          \* handleSubmit invocations suspended at an await
    nextTxn,          \* number of the next transaction id
    events,           \* payloads passed to notifyListeners by the last operation
    last,             \* the last operation: name, arguments, result
    expiredSeen,      \* cells an availability query reported free by expiry, not re-claimed since
    scale,            \* GridRenderer.scale
    offsetX, offsetY, \* GridRenderer.offsetX, offsetY
    canvasWidth,      \* GridRenderer.canvas.width
    canvasHeight,     \* GridRenderer.canvas.height
    cameraOps,        \* changes of the camera so far
    timers,           \* the periodic callbacks still scheduled
    instance,         \* ShieldCanvas.instances holds the instance
    peer              \* the StateManager of a second instance on the page, if any

ledgerVars == <<grid, stored, ownership, storedOwnership, listeners, shape>>
uiVars == <<selectedSquares, selectionStart, isDragging, isSelecting, isPainting,
            isPaintMode, isEraseMode, paintColor>>
modalVars == <<modal, modalSquares, pending, nextTxn>>
cameraVars == <<scale, offsetX, offsetY, canvasWidth, canvasHeight, cameraOps>>
hostVars == <<timers, instance, peer>>
vars == <<now, ledgerVars, uiVars, modalVars, needsRedraw, events, last, expiredSeen,
          cameraVars, hostVars>>

\* ------------------------------------------------------------ pure helpers
GetKey(x, y) == <<x, y>>

HasSquare(g, k) == k \in DOMAIN g

IsExpired(sq, t) == sq.expiryTime # 0 /\ sq.expiryTime < t

IsValidGridCoord(k) ==
    k[1] >= 0 /\ k[1] < GridSize /\ k[2] >= 0 /\ k[2] < GridSize

Without(g, ks) == [k \in (DOMAIN g) \ ks |-> g[k]]

\* the entries of h written over g
Merge(g, h) == [k \in (DOMAIN g) \cup (DOMAIN h) |-> IF k \in DOMAIN h THEN h[k] ELSE g[k]]

Square(k, color, t) ==
    [color |-> color, email |-> Email, x |-> k[1], y |-> k[2],
     timestamp |-> t, expiryTime |-> t + LockDuration]

\* variant: only the most recent transaction is looked at
IsOwnedByLatest(own, k) == Len(own) > 0 /\ k \in own[Len(own)].squares

IsOwnedSquare(own, k) == \E i \in 1 .. Len(own) : k \in own[i].squares

\* the first record, in key insertion order, that lists k
FirstOwner(own, k) ==
    CHOOSE i \in 1 .. Len(own) :
        /\ k \in own[i].squares
        /\ \A j \in 1 .. i - 1 : k \notin own[j].squares

GetOriginalColor(own, k) ==
    IF IsOwnedSquare(own, k) THEN own[FirstOwner(own, k)].originalColor
    ELSE DefaultColor

ExpiredKeys(g, t) == {k \in DOMAIN g : IsExpired(g[k], t)}

\* variant: the sweep stops after the first expired entry it deletes
CleanOneExpired(g, t) ==
    IF ExpiredKeys(g, t) = {} THEN g
    ELSE Without(g, {CHOOSE k \in ExpiredKeys(g, t) : TRUE})

\* cleanExpiredSquares: the grid it leaves, and whether it notified
CleanExpiredSquares(g, t) == Without(g, ExpiredKeys(g, t))

\* notifyListeners: forEach on this.listeners; throws when listeners is undefined
NotifyThrows(lst) == lst = UndefinedListeners

\* loadState, as run by the constructor with the listeners it has at that point
LoadState(st, lst, t) ==
    IF ExpiredKeys(st, t) # {} /\ NotifyThrows(lst)
    THEN EmptyGrid
    ELSE CleanExpiredSquares(st, t)

LoadOwnership(st) == st

\* the redraw flag after notifyListeners ran `n` times with the registered listeners
Redraw(flag, lst, n) == flag \/ (n > 0 /\ lst # UndefinedListeners /\ Len(lst) > 0)

\* the cells among ks that hold an entry / a non-expired entry
Had(ks) == {k \in ks : HasSquare(grid, k)}

Live(ks) == {k \in ks : HasSquare(grid, k) /\ ~IsExpired(grid[k], now)}

Op(name, k, cells, color, txn, result) ==
    [op |-> name, key |-> k, cells |-> cells, color |-> color, txn |-> txn,
     result |-> result,
     had |-> Had(cells \cup {k}), live |-> Live(cells \cup {k})]

\* an operation that touches neither the ledger nor the selection
NoOp == [op |-> "ui", key |-> NoKey, cells |-> {}, color |-> DefaultColor, txn |-> 0,
         result |-> TRUE, had |-> {}, live |-> {}]

\* this.grid and this.ownership are both plain objects
ObjectShape == [grid |-> "object", ownership |-> "object"]

\* the page holds no second instance
NoPeer == [mounted |-> FALSE, grid |-> EmptyGrid, ownership |-> <<>>]

\* ----------------------------------------------------------------- numbers
\* JavaScript numbers: binary floating point, round to nearest, ties to even.
\* A number is m * 2^e with 2^(MantissaBits-1) <= |m| < 2^MantissaBits, or zero;
\* the exponent is unbounded (the camera never leaves the normal range).
Min(a, b) == IF a < b THEN a ELSE b

Max(a, b) == IF a > b THEN a ELSE b

RECURSIVE BitLen(_)
BitLen(n) == IF n < 2 THEN 1 ELSE 1 + BitLen(n \div 2)

Abs(n) == IF n < 0 THEN 0 - n ELSE n

Sgn(n) == IF n < 0 THEN 0 - 1 ELSE 1

Zero == [m |-> 0, e |-> 0]

\* the number nearest to n * 2^e
Fl(n, e) ==
    IF n = 0 THEN Zero
    ELSE LET a == Abs(n)
             len == BitLen(a)
         IN IF len <= MantissaBits
            THEN [m |-> n * 2 ^ (MantissaBits - len), e |-> e - (MantissaBits - len)]
            ELSE LET k == len - MantissaBits
                     q == a \div 2 ^ k
                     r == a % 2 ^ k
                     half == 2 ^ (k - 1)
                     up == r > half \/ (r = half /\ q % 2 = 1)
                     q2 == IF up THEN q + 1 ELSE q
                 IN IF q2 = 2 ^ MantissaBits
                    THEN [m |-> Sgn(n) * 2 ^ (MantissaBits - 1), e |-> e + k + 1]
                    ELSE [m |-> Sgn(n) * q2, e |-> e + k]

FromInt(n) == Fl(n, 0)

Neg(x) == [m |-> 0 - x.m, e |-> x.e]

\* x * y
Mul(x, y) == Fl(x.m * y.m, x.e + y.e)

\* x + y; an operand below a quarter of the other's last place does not count
Add(x, y) ==
    IF x.m = 0 THEN y
    ELSE IF y.m = 0 THEN x
    ELSE LET hi == IF x.e >= y.e THEN x ELSE y
             lo == IF x.e >= y.e THEN y ELSE x
             d == hi.e - lo.e
         IN IF d > MantissaBits + 1 THEN hi
            ELSE Fl(hi.m * 2 ^ d + lo.m, lo.e)

\* x - y
Sub(x, y) == Add(x, Neg(y))

\* x / y, y nonzero: the quotient to MantissaBits + 2 places and a sticky bit
Div(x, y) ==
    IF x.m = 0 THEN Zero
    ELSE LET n == Abs(x.m) * 2 ^ (MantissaBits + 2)
             q == n \div Abs(y.m)
             sticky == IF n % Abs(y.m) = 0 THEN 0 ELSE 1
         IN Fl(Sgn(x.m) * Sgn(y.m) * (2 * q + sticky), x.e - y.e - (MantissaBits + 3))

\* x < y
Less(x, y) == Sub(x, y).m < 0

\* Math.min, Math.max
MinF(x, y) == IF Less(y, x) THEN y ELSE x

MaxF(x, y) == IF Less(x, y) THEN y ELSE x

\* Math.floor, Math.ceil
Floor(x) ==
    IF x.e >= 0 THEN x.m * 2 ^ x.e
    ELSE IF 0 - x.e > 30 THEN (IF x.m < 0 THEN 0 - 1 ELSE 0)
    ELSE x.m \div 2 ^ (0 - x.e)

Ceil(x) == 0 - Floor(Neg(x))

\* ------------------------------------------------------------------ camera
\* the sizes container.getBoundingClientRect() gives resize(): the first at
\* construction
InitialCanvas == <<440, 330>>
CanvasSizes == {InitialCanvas, <<40, 30>>}

\* GridRenderer.squareSize
SquareSize == 10

\* the literals 0.5, 0.1, 10 of the constructor
InitialScale == Div(FromInt(1), FromInt(2))
MinScale == Div(FromInt(1), FromInt(10))
MaxScale == FromInt(10)

\* the literals 0.9 and 1.1 of handleWheel, 1.5 of the zoom buttons
WheelOut == Div(FromInt(9), FromInt(10))
WheelIn == Div(FromInt(11), FromInt(10))
ZoomStep == Div(FromInt(3), FromInt(2))

\* this.squareSize * this.scale
CellSize(s) == Mul(FromInt(SquareSize), s)

\* screenToGrid, one axis: Math.floor((screen - offset) / (squareSize * scale))
ScreenToGridNumber(sx, off, s) == Floor(Div(Sub(sx, off), CellSize(s)))
ScreenToGrid(px, off, s) == ScreenToGridNumber(FromInt(px), off, s)

\* gridToScreen, one axis: grid * squareSize * scale + offset
GridToScreen(g, off, s) == Add(Mul(FromInt(g * SquareSize), s), off)

\* centerView, one axis: extent / 2 - gridSize * squareSize * scale / 2
CenterOffset(extent, s) ==
    Sub(Div(FromInt(extent), FromInt(2)),
        Div(Mul(FromInt(GridSize * SquareSize), s), FromInt(2)))

\* handleWheel: Math.max(minScale, Math.min(maxScale, scale * zoomFactor))
WheelScale(s, deltaY) ==
    MaxF(MinScale, MinF(MaxScale, Mul(s, IF deltaY > 0 THEN WheelOut ELSE WheelIn)))

\* variant: the cell's corner is placed with the scale of before the zoom
WheelOffsetOldScale(px, off, s, s2) ==
    Add(off, Sub(FromInt(px), GridToScreen(ScreenToGrid(px, off, s), off, s)))

\* handleWheel, one axis: offset += mouse - gridToScreen(screenToGrid(mouse))
\* with the cell taken at scale s and its corner placed at scale s2
WheelOffset(px, off, s, s2) ==
    Add(off, Sub(FromInt(px), GridToScreen(ScreenToGrid(px, off, s), off, s2)))

\* variant: the zoom-in button multiplies without looking at maxScale
ZoomInUnclamped(s) == Mul(s, ZoomStep)

\* the zoom buttons: Math.min(maxScale, scale * 1.5), Math.max(minScale, scale / 1.5)
ZoomInScale(s) == MinF(MaxScale, Mul(s, ZoomStep))

ZoomOutScale(s) == MaxF(MinScale, Div(s, ZoomStep))

\* render: Math.max(0, Math.floor(-offset / (squareSize * scale)))
VisibleStart(off, s) == Max(0, Floor(Div(Neg(off), CellSize(s))))

\* render: Math.min(gridSize, Math.ceil((extent - offset) / (squareSize * scale)))
VisibleEnd(extent, off, s) ==
    Min(GridSize, Ceil(Div(Sub(FromInt(extent), off), CellSize(s))))

\* the cells the two nested loops of render enumerate, read and draw
DrawnCells(w, h, ox, oy, s) ==
    (VisibleStart(ox, s) .. VisibleEnd(w, ox, s) - 1)
        \X (VisibleStart(oy, s) .. VisibleEnd(h, oy, s) - 1)

\* the cells drawUI looks up for the info panel: getOwnedSquares calls getSquare
\* for every square of every ownership record
OverlayReads(own) == UNION {own[i].squares : i \in 1 .. Len(own)}

\* the cells one draw pass reads: render's loops, then drawUI
RenderReads(w, h, ox, oy, s, own) == DrawnCells(w, h, ox, oy, s) \cup OverlayReads(own)

\* the periodic work ShieldCanvas.init schedules: StateManager.cleanupInterval,
\* the requestAnimationFrame chain of startRenderLoop, and the control panel's
\* setInterval(updateButtonStates, 100)
AllTimers == {"cleanupInterval", "renderLoop", "buttonPoll"}

\* -------------------------------------------------------------------- Init
Init ==
    /\ now = 0
    /\ grid = EmptyGrid
    /\ stored = EmptyGrid
    /\ ownership = <<>>
    /\ storedOwnership = <<>>
    /\ listeners = <<"requestRedraw">>
    /\ shape = ObjectShape
    /\ selectedSquares = {}
    /\ selectionStart = NoKey
    /\ isDragging = FALSE
    /\ isSelecting = FALSE
    /\ isPainting = FALSE
    /\ isPaintMode = FALSE
    /\ isEraseMode = FALSE
    /\ paintColor = "#FF0000"
    /\ needsRedraw = TRUE
    /\ modal = "none"
    /\ modalSquares = {}
    /\ pending = <<>>
    /\ nextTxn = 1
    /\ events = <<>>
    /\ last = NoOp
    /\ expiredSeen = {}
    /\ scale = InitialScale
    /\ canvasWidth = InitialCanvas[1]
    /\ canvasHeight = InitialCanvas[2]
    /\ offsetX = CenterOffset(InitialCanvas[1], InitialScale)
    /\ offsetY = CenterOffset(InitialCanvas[2], InitialScale)
    /\ cameraOps = 0
    /\ timers = AllTimers
    /\ instance = TRUE
    /\ peer = NoPeer

\* ------------------------------------------------------------ ledger steps
Tick ==
    /\ now < MaxTime
    /\ now' = now + 1
    /\ events' = <<>>
    /\ UNCHANGED <<cameraVars, hostVars>>
    /\ last' = NoOp
    /\ UNCHANGED <<ledgerVars, uiVars, modalVars, needsRedraw, expiredSeen>>

\* removeSquare(x, y)
RemoveSquare(k) ==
    /\ grid' = Without(grid, {k})
    /\ stored' = grid'
    /\ events' = <<"removed">>
    /\ needsRedraw' = Redraw(needsRedraw, listeners, 1)
    /\ UNCHANGED <<cameraVars, hostVars>>
    /\ last' = Op("removeSquare", k, {}, DefaultColor, 0, TRUE)
    /\ UNCHANGED <<now, ownership, storedOwnership, listeners, shape, uiVars, modalVars, expiredSeen>>

\* isSquareAvailable(x, y): the value it returns and the grid it leaves
AvailableResult(g, k, t) == ~HasSquare(g, k) \/ IsExpired(g[k], t)

\* variant: the expired entry is reported free and left in place
AvailableGridKeep(g, k, t) == g

AvailableGrid(g, k, t) ==
    IF HasSquare(g, k) /\ IsExpired(g[k], t) THEN Without(g, {k}) ELSE g

IsSquareAvailable(k) ==
    /\ grid' = AvailableGrid(grid, k, now)
    /\ stored' = IF grid' # grid THEN grid' ELSE stored
    /\ events' = IF grid' # grid THEN <<"removed">> ELSE <<>>
    /\ needsRedraw' = Redraw(needsRedraw, listeners, Len(events'))
    /\ UNCHANGED <<cameraVars, hostVars>>
    /\ last' = Op("isSquareAvailable", k, {}, DefaultColor, 0, AvailableResult(grid, k, now))
    /\ expiredSeen' = IF grid' # grid THEN expiredSeen \cup {k} ELSE expiredSeen
    /\ UNCHANGED <<now, ownership, storedOwnership, listeners, shape, uiVars, modalVars>>

\* variant: the sweep deletes and saves without calling notifyListeners
CleanupTimerSilent ==
    /\ "cleanupInterval" \in timers
    /\ grid' = CleanExpiredSquares(grid, now)
    /\ stored' = grid'
    /\ events' = <<>>
    /\ UNCHANGED <<cameraVars, hostVars>>
    /\ last' = Op("cleanup", NoKey, ExpiredKeys(grid, now), DefaultColor, 0, TRUE)
    /\ UNCHANGED <<now, ownership, storedOwnership, listeners, shape, uiVars, modalVars,
                   needsRedraw, expiredSeen>>

\* the interval callback of startCleanupTimer
CleanupTimer ==
    /\ "cleanupInterval" \in timers
    /\ grid' = CleanExpiredSquares(grid, now)
    /\ stored' = grid'
    /\ events' = IF ExpiredKeys(grid, now) # {} THEN <<"undefined">> ELSE <<>>
    /\ needsRedraw' = Redraw(needsRedraw, listeners, Len(events'))
    /\ UNCHANGED <<cameraVars, hostVars>>
    /\ last' = Op("cleanup", NoKey, ExpiredKeys(grid, now), DefaultColor, 0, TRUE)
    /\ UNCHANGED <<now, ownership, storedOwnership, listeners, shape, uiVars, modalVars, expiredSeen>>

\* setSquare(x, y, data)
SetSquare(k, color) ==
    /\ grid' = Merge(grid, [c \in {k} |-> Square(c, color, now)])
    /\ stored' = grid'
    /\ events' = <<"single">>
    /\ needsRedraw' = Redraw(needsRedraw, listeners, 1)
    /\ UNCHANGED <<cameraVars, hostVars>>
    /\ last' = Op("setSquare", k, {}, color, 0, TRUE)
    /\ expiredSeen' = expiredSeen \ {k}
    /\ UNCHANGED <<now, ownership, storedOwnership, listeners, shape, uiVars, modalVars>>

\* variant: cells that already hold an entry are skipped
SetSquaresSkipHeld(g, cells, color, t) ==
    Merge(g, [c \in cells \ DOMAIN g |-> Square(c, color, t)])

\* setSquares(squares): the grid it leaves
SetSquares(g, cells, color, t) == Merge(g, [c \in cells |-> Square(c, color, t)])

\* addOwnedSquares(transactionId, squares, originalColor): the ledger it leaves
AddOwnedSquares(own, txn, cells, color, t) ==
    Append(own, [id |-> txn, squares |-> cells, timestamp |-> t,
                 originalColor |-> color, url |-> "null", username |-> "Anonymous"])

\* variant: the `if (!square) return false` test left out
UpdateResultOwnedOnly(g, own, k) == IsOwnedSquare(own, k)

\* updateSquareColor(x, y, newColor): the value it returns and the grid it leaves
UpdateResult(g, own, k) == IsOwnedSquare(own, k) /\ HasSquare(g, k)

\* variant: the recolored entry is rebuilt as setSquare builds one
UpdateGridRenew(g, own, k, color) ==
    IF UpdateResult(g, own, k)
    THEN [g EXCEPT ![k] = Square(k, color, now + 1)]
    ELSE g

\* variant: an owned cell without an entry gets one, holding the color only
UpdateGridNoEntryCheck(g, own, k, color) ==
    IF ~IsOwnedSquare(own, k) THEN g
    ELSE IF HasSquare(g, k) THEN [g EXCEPT ![k].color = color]
    ELSE Merge(g, [c \in {k} |-> [color |-> color, email |-> "", x |-> c[1], y |-> c[2],
                                   timestamp |-> 0, expiryTime |-> 0]])

UpdateGrid(g, own, k, color) ==
    IF UpdateResult(g, own, k) THEN [g EXCEPT ![k].color = color] ELSE g

\* updateSquareColor called for the holder of transaction req; the method has no
\* such parameter and reads only the session's whole ownership ledger
UpdateSquareColor(k, color, req) ==
    /\ grid' = UpdateGrid(grid, ownership, k, color)
    /\ stored' = IF UpdateResult(grid, ownership, k) THEN grid' ELSE stored
    /\ events' = IF UpdateResult(grid, ownership, k) THEN <<"colorUpdate">> ELSE <<>>
    /\ needsRedraw' = Redraw(needsRedraw, listeners, Len(events'))
    /\ UNCHANGED <<cameraVars, hostVars>>
    /\ last' = Op("updateSquareColor", k, {}, color, req, UpdateResult(grid, ownership, k))
    /\ UNCHANGED <<now, ownership, storedOwnership, listeners, shape, uiVars, modalVars, expiredSeen>>

\* importState(jsonString) with a well-formed grid
ImportState(g) ==
    /\ grid' = CleanExpiredSquares(g, now)
    /\ stored' = grid'
    /\ events' = IF ExpiredKeys(g, now) # {} THEN <<"undefined", "fullRefresh">>
                 ELSE <<"fullRefresh">>
    /\ needsRedraw' = Redraw(needsRedraw, listeners, Len(events'))
    /\ UNCHANGED <<cameraVars, hostVars>>
    /\ shape' = [shape EXCEPT !.grid = "object"]
    /\ last' = Op("importState", NoKey, DOMAIN g, DefaultColor, 0, TRUE)
    /\ UNCHANGED <<now, ownership, storedOwnership, listeners, uiVars, modalVars, expiredSeen>>

\* texts importState returns false for: text JSON.parse rejects, the text
\* "null", and an object whose one entry is null
FailingImports == {"unparsable", "null", "nullEntry"}

\* importState(jsonString) returning false. JSON.parse throws on unparsable
\* text before anything is assigned. Otherwise this.grid = imported comes first
\* and cleanExpiredSquares throws after it: Object.keys(null) for "null",
\* grid[key].expiryTime for the null entry, which getSquare reports as no entry.
\* The catch returns false; saveState and notifyListeners are not reached.
ImportStateFails(content) ==
    /\ grid' = IF content = "unparsable" THEN grid ELSE EmptyGrid
    /\ shape' = IF content = "unparsable" THEN shape
                ELSE [shape EXCEPT !.grid = IF content = "null" THEN "null" ELSE "object"]
    /\ events' = <<>>
    /\ UNCHANGED <<cameraVars, hostVars>>
    /\ last' = Op("importState", NoKey, {}, DefaultColor, 0, FALSE)
    /\ UNCHANGED <<now, stored, ownership, storedOwnership, listeners, uiVars, modalVars,
                   needsRedraw, expiredSeen>>

\* clearAll()
ClearAll ==
    /\ grid' = EmptyGrid
    /\ stored' = grid'
    /\ events' = <<"fullRefresh">>
    /\ needsRedraw' = Redraw(needsRedraw, listeners, 1)
    /\ UNCHANGED <<cameraVars, hostVars>>
    /\ last' = Op("clearAll", NoKey, {}, DefaultColor, 0, TRUE)
    /\ UNCHANGED <<now, ownership, storedOwnership, listeners, shape, uiVars, modalVars, expiredSeen>>

\* what the two storage keys can hold at a page load: what the program last
\* saved there, or text written by something else
Written == "written"

GridContents == {Written, "unparsable", "null", "number", "nullEntry"}

OwnershipContents == {Written, "unparsable", "null"}

\* loadState over the content of the grid key: JSON.parse throws on unparsable
\* text, cleanExpiredSquares throws on null (Object.keys) and on an entry that is
\* null (grid[key].expiryTime), and the catch returns {}; a number has no keys
\* and is returned as it is
LoadStateOf(content, st, lst, t) ==
    IF content = Written THEN LoadState(st, lst, t) ELSE EmptyGrid

LoadedGridShape(content) == IF content = "number" THEN "primitive" ELSE "object"

\* loadOwnership over the content of the ownership key: JSON.parse, {} when it throws
LoadOwnershipOf(content, st) ==
    IF content = Written THEN LoadOwnership(st) ELSE <<>>

LoadedOwnershipShape(content) == IF content = "null" THEN "null" ELSE "object"

\* a page load: ShieldCanvas.init builds a new StateManager (constructor:
\* loadState, loadOwnership, then listeners = []), GridRenderer and
\* DonationModal, then registers the redraw listener
ConstructOver(gridContent, ownershipContent) ==
    /\ grid' = LoadStateOf(gridContent, stored, UndefinedListeners, now)
    /\ ownership' = LoadOwnershipOf(ownershipContent, storedOwnership)
    /\ shape' = [grid |-> LoadedGridShape(gridContent),
                 ownership |-> LoadedOwnershipShape(ownershipContent)]
    /\ listeners' = <<"requestRedraw">>
    /\ selectedSquares' = {}
    /\ selectionStart' = NoKey
    /\ isDragging' = FALSE
    /\ isSelecting' = FALSE
    /\ isPainting' = FALSE
    /\ isPaintMode' = FALSE
    /\ isEraseMode' = FALSE
    /\ paintColor' = "#FF0000"
    /\ needsRedraw' = TRUE
    /\ modal' = "none"
    /\ modalSquares' = {}
    /\ pending' = <<>>
    /\ events' = <<>>
    /\ scale' = InitialScale
    /\ offsetX' = CenterOffset(canvasWidth, InitialScale)
    /\ offsetY' = CenterOffset(canvasHeight, InitialScale)
    /\ timers' = AllTimers
    /\ instance' = TRUE
    /\ peer' = NoPeer
    /\ last' = Op("construct", NoKey, DOMAIN stored, DefaultColor, 0, TRUE)
    /\ UNCHANGED <<now, stored, storedOwnership, nextTxn, expiredSeen, canvasWidth,
                   canvasHeight, cameraOps>>

\* a page load over the persisted state the program saved
Construct == ConstructOver(Written, Written)

\* ------------------------------------------------------- renderer handlers
\* variant: the loops stop one short of the far edge (x < maxX, y < maxY)
BoxExclusive(a, b) ==
    {k \in Coords : /\ Min(a[1], b[1]) <= k[1] /\ k[1] < Max(a[1], b[1])
                    /\ Min(a[2], b[2]) <= k[2] /\ k[2] < Max(a[2], b[2])}

\* the in-grid cells of the rectangle updateDragSelection walks
Box(a, b) ==
    {k \in Coords : /\ Min(a[1], b[1]) <= k[1] /\ k[1] <= Max(a[1], b[1])
                    /\ Min(a[2], b[2]) <= k[2] /\ k[2] <= Max(a[2], b[2])}

Repeat(n, e) == [i \in 1 .. n |-> e]

\* paintSquare(x, y): the color it asks updateSquareColor to set
PaintColorFor(k) ==
    IF isEraseMode THEN GetOriginalColor(ownership, k) ELSE paintColor

\* variant: the test does not look for the cell's entry
PaintTargetNoEntry(k) ==
    IsValidGridCoord(k) /\ IsOwnedSquare(ownership, k)

\* the test handleMouseDown and handleMouseMove make before calling paintSquare
PaintTarget(k) ==
    IsValidGridCoord(k) /\ HasSquare(grid, k) /\ IsOwnedSquare(ownership, k)

\* handleMouseDown(e), e resolving to cell p; button 0 or 2; mod = shiftKey || ctrlKey
HandleMouseDown(p, button, mod) ==
    LET paintBranch == button = 0 /\ isPaintMode /\ IsValidGridCoord(p)
        paintHit == paintBranch /\ PaintTarget(p)
        modBranch == button = 0 /\ ~paintBranch /\ mod
        cellBranch == button = 0 /\ ~paintBranch /\ ~mod /\ IsValidGridCoord(p)
        selectHit == cellBranch /\ AvailableResult(grid, p, now)
        purged == cellBranch /\ HasSquare(grid, p) /\ IsExpired(grid[p], now)
        panStart == \/ button = 2
                    \/ button = 0 /\ ~paintBranch /\ ~mod /\ ~selectHit
    IN
    /\ grid' = IF paintHit THEN UpdateGrid(grid, ownership, p, PaintColorFor(p))
               ELSE IF cellBranch THEN AvailableGrid(grid, p, now)
               ELSE grid
    /\ stored' = IF paintHit \/ purged THEN grid' ELSE stored
    /\ events' = IF paintHit THEN <<"colorUpdate">>
                 ELSE IF purged THEN <<"removed">> ELSE <<>>
    /\ isPainting' = (isPainting \/ paintHit)
    /\ isSelecting' = (isSelecting \/ modBranch \/ selectHit)
    /\ isDragging' = (isDragging \/ panStart)
    /\ selectionStart' = IF modBranch \/ selectHit THEN p ELSE selectionStart
    /\ selectedSquares' = IF selectHit
                          THEN IF p \in selectedSquares THEN selectedSquares \ {p}
                               ELSE selectedSquares \cup {p}
                          ELSE selectedSquares
    /\ needsRedraw' = (Redraw(needsRedraw, listeners, Len(events')) \/ selectHit \/ paintHit)
    /\ UNCHANGED <<cameraVars, hostVars>>
    /\ last' = Op(IF paintHit THEN "paintSquare"
                  ELSE IF button = 2 THEN "secondaryDown" ELSE "mouseDown", p, {},
                  IF paintHit THEN PaintColorFor(p) ELSE DefaultColor, 0, paintHit)
    /\ expiredSeen' = IF purged THEN expiredSeen \cup {p} ELSE expiredSeen
    /\ UNCHANGED <<now, ownership, storedOwnership, listeners, shape, isPaintMode, isEraseMode,
                   paintColor, modalVars>>

\* handleMouseMove(e), e resolving to cell p and lying d = (dx, dy) pixels from
\* (lastMouseX, lastMouseY)
HandleMouseMoveBy(p, d) ==
    LET paintHit == isPainting /\ PaintTarget(p)
        pan == ~isPainting /\ isDragging
        moved == pan /\ d # <<0, 0>>
        sel == /\ ~isPainting /\ ~isDragging /\ isSelecting
               /\ selectionStart # NoKey /\ IsValidGridCoord(p)
        hover == ~isPainting /\ ~isDragging /\ ~(isSelecting /\ selectionStart # NoKey)
        purged == IF sel THEN ExpiredKeys(grid, now) \cap Box(selectionStart, p) ELSE {}
    IN
    /\ grid' = IF paintHit THEN UpdateGrid(grid, ownership, p, PaintColorFor(p))
               ELSE Without(grid, purged)
    /\ stored' = IF paintHit \/ purged # {} THEN grid' ELSE stored
    /\ events' = IF paintHit THEN <<"colorUpdate">>
                 ELSE Repeat(Cardinality(purged), "removed")
    /\ selectedSquares' =
          IF sel THEN {k \in Box(selectionStart, p) : AvailableResult(grid, k, now)}
          ELSE selectedSquares
    /\ IF hover
       THEN needsRedraw' \in {needsRedraw, TRUE}
       ELSE needsRedraw' = (Redraw(needsRedraw, listeners, Len(events')) \/ paintHit \/ pan \/ sel)
    /\ moved => cameraOps < MaxCameraOps
    /\ offsetX' = IF pan THEN Add(offsetX, FromInt(d[1])) ELSE offsetX
    /\ offsetY' = IF pan THEN Add(offsetY, FromInt(d[2])) ELSE offsetY
    /\ cameraOps' = IF moved THEN cameraOps + 1 ELSE cameraOps
    /\ UNCHANGED <<scale, canvasWidth, canvasHeight, hostVars>>
    /\ last' = Op(IF paintHit THEN "paintSquare" ELSE "mouseMove", p, {},
                  IF paintHit THEN PaintColorFor(p) ELSE DefaultColor, 0, paintHit)
    /\ expiredSeen' = expiredSeen \cup purged
    /\ UNCHANGED <<now, ownership, storedOwnership, listeners, shape, selectionStart, isDragging,
                   isSelecting, isPainting, isPaintMode, isEraseMode, paintColor, modalVars>>

\* a pointer move given by its cell alone, the pointer's pixel as at the last
\* event
HandleMouseMove(p) == HandleMouseMoveBy(p, <<0, 0>>)

\* handleMouseUp(e)
HandleMouseUp ==
    /\ isDragging' = FALSE
    /\ isSelecting' = FALSE
    /\ isPainting' = FALSE
    /\ selectionStart' = NoKey
    /\ events' = <<>>
    /\ UNCHANGED <<cameraVars, hostVars>>
    /\ last' = Op("mouseUp", NoKey, {}, DefaultColor, 0, TRUE)
    /\ UNCHANGED <<now, ledgerVars, selectedSquares, isPaintMode, isEraseMode, paintColor,
                   modalVars, needsRedraw, expiredSeen>>

\* handleMouseLeave(e)
HandleMouseLeave ==
    /\ isDragging' = FALSE
    /\ isSelecting' = FALSE
    /\ selectionStart' = NoKey
    /\ needsRedraw' = TRUE
    /\ events' = <<>>
    /\ UNCHANGED <<cameraVars, hostVars>>
    /\ last' = Op("mouseLeave", NoKey, {}, DefaultColor, 0, TRUE)
    /\ UNCHANGED <<now, ledgerVars, selectedSquares, isPainting, isPaintMode, isEraseMode,
                   paintColor, modalVars, expiredSeen>>

\* variant: setPaintMode leaves isPainting as it is
PaintModeClickKeepPainting ==
    /\ isPaintMode' = ~isPaintMode
    /\ isEraseMode' = IF isPaintMode THEN FALSE ELSE isEraseMode
    /\ needsRedraw' = TRUE
    /\ events' = <<>>
    /\ UNCHANGED <<cameraVars, hostVars>>
    /\ last' = Op("setPaintMode", NoKey, {}, DefaultColor, 0, isPainting)
    /\ UNCHANGED <<now, ledgerVars, selectedSquares, selectionStart, isDragging, isSelecting,
                   isPainting, paintColor, modalVars, expiredSeen>>

\* the paint-mode button: setPaintMode, and setEraseMode(false) when leaving;
\* last.result records whether a paint gesture was in progress
PaintModeClick ==
    /\ isPaintMode' = ~isPaintMode
    /\ isPainting' = FALSE
    /\ isEraseMode' = IF isPaintMode THEN FALSE ELSE isEraseMode
    /\ needsRedraw' = TRUE
    /\ events' = <<>>
    /\ UNCHANGED <<cameraVars, hostVars>>
    /\ last' = Op("setPaintMode", NoKey, {}, DefaultColor, 0, isPainting)
    /\ UNCHANGED <<now, ledgerVars, selectedSquares, selectionStart, isDragging, isSelecting,
                   paintColor, modalVars, expiredSeen>>

\* the paint color input and the preset buttons of the paint panel
PaintColorInput(c) ==
    /\ isPaintMode
    /\ isEraseMode' = FALSE
    /\ paintColor' = c
    /\ events' = <<>>
    /\ UNCHANGED <<cameraVars, hostVars>>
    /\ last' = NoOp
    /\ UNCHANGED <<now, ledgerVars, selectedSquares, selectionStart, isDragging, isSelecting,
                   isPainting, isPaintMode, modalVars, needsRedraw, expiredSeen>>

\* the eraser button of the paint panel
EraserClick ==
    /\ isPaintMode
    /\ isEraseMode' = ~isEraseMode
    /\ events' = <<>>
    /\ UNCHANGED <<cameraVars, hostVars>>
    /\ last' = NoOp
    /\ UNCHANGED <<now, ledgerVars, selectedSquares, selectionStart, isDragging, isSelecting,
                   isPainting, isPaintMode, paintColor, modalVars, needsRedraw, expiredSeen>>

\* the clear-selection button: clearSelection()
ClearSelectionClick ==
    /\ selectedSquares # {}
    /\ selectedSquares' = {}
    /\ needsRedraw' = TRUE
    /\ events' = <<>>
    /\ UNCHANGED <<cameraVars, hostVars>>
    /\ last' = NoOp
    /\ UNCHANGED <<now, ledgerVars, selectionStart, isDragging, isSelecting, isPainting,
                   isPaintMode, isEraseMode, paintColor, modalVars, expiredSeen>>

\* variant: the callback draws but leaves the flag set
RenderFrameKeepsFlag ==
    /\ "renderLoop" \in timers
    /\ needsRedraw' = needsRedraw
    /\ events' = <<>>
    /\ UNCHANGED <<cameraVars, hostVars>>
    /\ last' = Op("render", NoKey, {}, DefaultColor, 0, needsRedraw)
    /\ UNCHANGED <<now, ledgerVars, uiVars, modalVars, expiredSeen>>

\* one display-refresh callback of startRenderLoop: a draw pass when the flag is
\* set (last.result), the flag cleared, the next callback requested
RenderFrame ==
    /\ "renderLoop" \in timers
    /\ needsRedraw' = FALSE
    /\ events' = <<>>
    /\ UNCHANGED <<cameraVars, hostVars>>
    /\ last' = Op("render", NoKey, {}, DefaultColor, 0, needsRedraw)
    /\ UNCHANGED <<now, ledgerVars, uiVars, modalVars, expiredSeen>>

\* one callback of setInterval(updateButtonStates, 100): refreshes the control
\* panel's buttons and counters from the selection and the ledger
ButtonPoll ==
    /\ "buttonPoll" \in timers
    /\ events' = <<>>
    /\ UNCHANGED <<cameraVars, hostVars>>
    /\ last' = Op("poll", NoKey, selectedSquares, DefaultColor, 0, Len(ownership) > 0)
    /\ UNCHANGED <<now, ledgerVars, uiVars, modalVars, needsRedraw, expiredSeen>>

\* ShieldCanvas.destroy(containerId): stopCleanupTimer, gridRenderer.destroy
\* (canvas.remove), wrapper.remove, instances.delete
Destroy ==
    /\ instance
    /\ timers' = timers \ {"cleanupInterval"}
    /\ instance' = FALSE
    /\ UNCHANGED peer
    /\ events' = <<>>
    /\ last' = Op("destroy", NoKey, {}, DefaultColor, 0, TRUE)
    /\ UNCHANGED <<now, ledgerVars, uiVars, modalVars, needsRedraw, expiredSeen, cameraVars>>

\* variant: only the squares of the most recent transaction are collected
OwnedSquaresOfLatest(g, own) ==
    IF Len(own) = 0 THEN {} ELSE {k \in own[Len(own)].squares : HasSquare(g, k)}

\* getOwnedSquares: the listed squares of every ownership record that have an entry
OwnedSquares(g, own) == {k \in OverlayReads(own) : HasSquare(g, k)}

\* the clear-my-squares button, the confirm dialog accepted: removeSquare for
\* every owned square, ownership = {} and saveOwnership, setPaintMode(false),
\* clearSelection, requestRedraw
ClearMySquaresClick ==
    LET owned == OwnedSquares(grid, ownership) IN
    /\ owned # {}
    /\ grid' = Without(grid, owned)
    /\ stored' = grid'
    /\ ownership' = <<>>
    /\ storedOwnership' = ownership'
    /\ events' = Repeat(Cardinality(owned), "removed")
    /\ isPaintMode' = FALSE
    /\ isPainting' = FALSE
    /\ selectedSquares' = {}
    /\ needsRedraw' = TRUE
    /\ UNCHANGED <<cameraVars, hostVars>>
    /\ last' = Op("clearMySquares", NoKey, OverlayReads(ownership), DefaultColor, 0, TRUE)
    /\ UNCHANGED <<now, listeners, shape, selectionStart, isDragging, isSelecting, isEraseMode,
                   paintColor, modalVars, expiredSeen>>

\* ShieldCanvas.init for a second container of the page: a second StateManager
\* whose constructor reads the same two storage keys
PeerInit ==
    /\ ~peer.mounted
    /\ peer' = [mounted |-> TRUE,
                grid |-> LoadState(stored, UndefinedListeners, now),
                ownership |-> LoadOwnership(storedOwnership)]
    /\ events' = <<>>
    /\ last' = Op("peerInit", NoKey, DOMAIN stored, DefaultColor, 0, TRUE)
    /\ UNCHANGED <<now, ledgerVars, uiVars, modalVars, needsRedraw, expiredSeen, cameraVars,
                   timers, instance>>

\* an accepted donation made through the second instance: setSquares and
\* addOwnedSquares on its StateManager, each saving its own copy under the
\* shared keys and notifying its own listeners
PeerClaim(cells, color) ==
    /\ peer.mounted
    /\ nextTxn <= MaxTxn
    /\ peer' = [peer EXCEPT
                  !.grid = SetSquares(peer.grid, cells, color, now),
                  !.ownership = AddOwnedSquares(peer.ownership, nextTxn, cells, color, now)]
    /\ stored' = peer'.grid
    /\ storedOwnership' = peer'.ownership
    /\ nextTxn' = nextTxn + 1
    /\ events' = <<>>
    /\ last' = Op("peerClaim", NoKey, cells, color, nextTxn, TRUE)
    /\ UNCHANGED <<now, grid, ownership, listeners, shape, uiVars, modal, modalSquares, pending,
                   needsRedraw, expiredSeen, cameraVars, timers, instance>>

\* ---------------------------------------------------------- camera handlers
\* the count of camera changes, kept within MaxCameraOps
Counted(changed) ==
    /\ changed => cameraOps < MaxCameraOps
    /\ cameraOps' = IF changed THEN cameraOps + 1 ELSE cameraOps

\* the cell screenToGrid gives for the canvas pixel pt
CellAt(pt) == <<ScreenToGrid(pt[1], offsetX, scale), ScreenToGrid(pt[2], offsetY, scale)>>

\* handleWheel(e) at canvas pixel pt; last.key is the cell under the pointer
\* before the zoom, last.cells holds the pixel, last.result whether the scale changed
HandleWheel(pt, deltaY) ==
    LET newScale == WheelScale(scale, deltaY)
        changed == newScale # scale
    IN
    /\ Counted(changed)
    /\ scale' = newScale
    /\ offsetX' = IF changed THEN WheelOffset(pt[1], offsetX, scale, newScale) ELSE offsetX
    /\ offsetY' = IF changed THEN WheelOffset(pt[2], offsetY, scale, newScale) ELSE offsetY
    /\ needsRedraw' = (needsRedraw \/ changed)
    /\ events' = <<>>
    /\ last' = Op("wheel", CellAt(pt), {pt}, DefaultColor, 0, changed)
    /\ UNCHANGED <<now, ledgerVars, uiVars, modalVars, expiredSeen, canvasWidth, canvasHeight,
                   hostVars>>

\* the zoom-in button
ZoomInClick ==
    LET changed == ZoomInScale(scale) # scale IN
    /\ Counted(changed)
    /\ scale' = ZoomInScale(scale)
    /\ needsRedraw' = (needsRedraw \/ changed)
    /\ events' = <<>>
    /\ last' = Op("zoomIn", NoKey, {}, DefaultColor, 0, changed)
    /\ UNCHANGED <<now, ledgerVars, uiVars, modalVars, expiredSeen, offsetX, offsetY,
                   canvasWidth, canvasHeight, hostVars>>

\* the zoom-out button
ZoomOutClick ==
    LET changed == ZoomOutScale(scale) # scale IN
    /\ Counted(changed)
    /\ scale' = ZoomOutScale(scale)
    /\ needsRedraw' = (needsRedraw \/ changed)
    /\ events' = <<>>
    /\ last' = Op("zoomOut", NoKey, {}, DefaultColor, 0, changed)
    /\ UNCHANGED <<now, ledgerVars, uiVars, modalVars, expiredSeen, offsetX, offsetY,
                   canvasWidth, canvasHeight, hostVars>>

\* the center button: centerView()
CenterClick ==
    LET x == CenterOffset(canvasWidth, scale)
        y == CenterOffset(canvasHeight, scale)
    IN
    /\ Counted(x # offsetX \/ y # offsetY)
    /\ offsetX' = x
    /\ offsetY' = y
    /\ needsRedraw' = TRUE
    /\ events' = <<>>
    /\ last' = Op("centerView", NoKey, {}, DefaultColor, 0, TRUE)
    /\ UNCHANGED <<now, ledgerVars, uiVars, modalVars, expiredSeen, scale, canvasWidth,
                   canvasHeight, hostVars>>

\* the window's resize event: resize()
Resize(size) ==
    /\ Counted(size # <<canvasWidth, canvasHeight>>)
    /\ canvasWidth' = size[1]
    /\ canvasHeight' = size[2]
    /\ needsRedraw' = TRUE
    /\ events' = <<>>
    /\ last' = Op("resize", NoKey, {}, DefaultColor, 0, TRUE)
    /\ UNCHANGED <<now, ledgerVars, uiVars, modalVars, expiredSeen, scale, offsetX, offsetY,
                   hostVars>>

\* the squares of ownership record rec that getTransactions finds an entry for
ListedSquares(g, rec) == {k \in rec.squares : HasSquare(g, k)}

\* navigateToTransaction: Math.max(0.5, Math.min(scaleX, scaleY, 4.0)) for a
\* group whose longer side is maxDimension cells
FitScale(w, h, maxDimension) ==
    LET padded == FromInt((maxDimension + 5 * 2) * SquareSize)
        targetScale == MinF(MinF(Div(FromInt(w), padded), Div(FromInt(h), padded)),
                            FromInt(4))
    IN MaxF(InitialScale, targetScale)

\* navigateToTransaction, one axis: extent / 2 - centerGrid * squareSize * scale
\* with centerGrid = (lo + hi) / 2
FitOffset(extent, lo, hi, s) ==
    Sub(Div(FromInt(extent), FromInt(2)),
        Mul(Mul(Div(FromInt(lo + hi), FromInt(2)), FromInt(SquareSize)), s))

\* the previous / next transaction buttons arriving at the transaction kept in
\* ownership record i
NavigateToTransaction(i) ==
    LET squares == ListedSquares(grid, ownership[i])
        xs == {k[1] : k \in squares}
        ys == {k[2] : k \in squares}
        minX == CHOOSE v \in xs : \A u \in xs : v <= u
        maxX == CHOOSE v \in xs : \A u \in xs : v >= u
        minY == CHOOSE v \in ys : \A u \in ys : v <= u
        maxY == CHOOSE v \in ys : \A u \in ys : v >= u
        s == FitScale(canvasWidth, canvasHeight, Max(maxX - minX + 1, maxY - minY + 1))
        x == FitOffset(canvasWidth, minX, maxX, s)
        y == FitOffset(canvasHeight, minY, maxY, s)
    IN
    /\ squares # {}
    /\ Counted(<<s, x, y>> # <<scale, offsetX, offsetY>>)
    /\ scale' = s
    /\ offsetX' = x
    /\ offsetY' = y
    /\ needsRedraw' = TRUE
    /\ events' = <<>>
    /\ last' = Op("navigate", NoKey, squares, DefaultColor, ownership[i].id, TRUE)
    /\ UNCHANGED <<now, ledgerVars, uiVars, modalVars, expiredSeen, canvasWidth, canvasHeight,
                   hostVars>>

\* ----------------------------------------------------------- donation flow
Detach(ps) == [i \in 1 .. Len(ps) |-> [ps[i] EXCEPT !.attached = FALSE]]

RemoveAt(ps, i) == [j \in 1 .. Len(ps) - 1 |-> IF j < i THEN ps[j] ELSE ps[j + 1]]

\* DonationModal.show(selectedSquares, onComplete)
Show(cells) ==
    /\ modal' = "form"
    /\ modalSquares' = cells
    /\ pending' = Detach(pending)
    /\ events' = <<>>
    /\ UNCHANGED <<cameraVars, hostVars>>
    /\ last' = Op("donate", NoKey, cells, DefaultColor, 0, TRUE)
    /\ UNCHANGED <<now, ledgerVars, uiVars, nextTxn, needsRedraw, expiredSeen>>

\* the donate button: DonationModal.show(getSelectedSquares(), onComplete)
DonateClick ==
    /\ selectedSquares # {}
    /\ Show(selectedSquares)

\* close button, cancel button, overlay click or Escape: hide()
HideModal ==
    /\ modal # "none"
    /\ modal' = "none"
    /\ pending' = Detach(pending)
    /\ events' = <<>>
    /\ UNCHANGED <<cameraVars, hostVars>>
    /\ last' = NoOp
    /\ UNCHANGED <<now, ledgerVars, uiVars, modalSquares, nextTxn, needsRedraw, expiredSeen>>

\* form submit: handleSubmit up to its first await (processDonation)
Submit(color, emailOk) ==
    /\ modal = "form"
    /\ (nextTxn - 1) + Len(pending) < MaxTxn
    /\ modal' = "processing"
    /\ pending' = Append(pending, [squares |-> modalSquares, color |-> color,
                                   emailOk |-> emailOk, phase |-> "payment",
                                   txn |-> 0, attached |-> TRUE])
    /\ events' = <<>>
    /\ UNCHANGED <<cameraVars, hostVars>>
    /\ last' = Op("submit", NoKey, modalSquares, color, 0, TRUE)
    /\ UNCHANGED <<now, ledgerVars, uiVars, modalSquares, nextTxn, needsRedraw, expiredSeen>>

\* variant: the test of an empty squares list left out
ProcessDonationAnySquares(p) == p.emailOk /\ p.color # ""

\* MockAPI.processDonation: donationResult.success
ProcessDonation(p) == p.emailOk /\ p.squares # {} /\ p.color # ""

\* the timers of equal delay fire in the order they were set
FirstInPhase(i) == \A j \in 1 .. i - 1 : pending[j].phase # pending[i].phase

\* handleSubmit resumed after processDonation, the payment refused: the catch block
PaymentRefused(i) ==
    /\ pending[i].phase = "payment" /\ FirstInPhase(i)
    /\ ~ProcessDonation(pending[i])
    /\ modal' = IF pending[i].attached /\ modal = "processing" THEN "form" ELSE modal
    /\ pending' = RemoveAt(pending, i)
    /\ events' = <<>>
    /\ UNCHANGED <<cameraVars, hostVars>>
    /\ last' = Op("claim", NoKey, pending[i].squares, pending[i].color, 0, FALSE)
    /\ UNCHANGED <<now, ledgerVars, uiVars, modalSquares, nextTxn, needsRedraw, expiredSeen>>

\* the notifications of one commit, in order, each with the ledger its listeners
\* are called on: setSquares notifies before addOwnedSquares has run
ClaimNotifications(g, own, txn, cells, color, t) ==
    << [event |-> "multiple",
        grid |-> SetSquares(g, cells, color, t),
        ownership |-> own],
       [event |-> "leaderboardUpdate",
        grid |-> SetSquares(g, cells, color, t),
        ownership |-> AddOwnedSquares(own, txn, cells, color, t)] >>

\* handleSubmit lines 418-427, run without suspension once the payment is accepted:
\* setSquares(squaresWithColor), then addOwnedSquares(transactionId, squares, color)
CommitClaim(cells, color) ==
    /\ shape = ObjectShape
    /\ grid' = SetSquares(grid, cells, color, now)
    /\ stored' = grid'
    /\ ownership' = AddOwnedSquares(ownership, nextTxn, cells, color, now)
    /\ storedOwnership' = ownership'
    /\ events' = [i \in 1 .. 2 |->
                     ClaimNotifications(grid, ownership, nextTxn, cells, color, now)[i].event]
    /\ needsRedraw' = Redraw(needsRedraw, listeners, 2)
    /\ nextTxn' = nextTxn + 1
    /\ UNCHANGED <<cameraVars, hostVars>>
    /\ last' = Op("claim", NoKey, cells, color, nextTxn, TRUE)
    /\ expiredSeen' = expiredSeen \ cells
    /\ UNCHANGED <<now, listeners, shape>>

\* the same lines on a ledger loaded from foreign storage content: the class
\* body is strict code, so `this.grid[key] = ...` throws on a number and
\* `this.ownership[transactionId] = ...` throws on null; handleSubmit's catch
\* block shows the error
CommitFails(cells, color) ==
    LET written == shape.grid = "object" IN
    /\ shape # ObjectShape
    /\ cells # {}
    /\ grid' = IF written THEN SetSquares(grid, cells, color, now) ELSE grid
    /\ stored' = IF written THEN grid' ELSE stored
    /\ events' = IF written THEN <<"multiple">> ELSE <<>>
    /\ needsRedraw' = Redraw(needsRedraw, listeners, Len(events'))
    /\ nextTxn' = nextTxn + 1
    /\ UNCHANGED <<cameraVars, hostVars>>
    /\ last' = Op("claim", NoKey, cells, color, nextTxn, FALSE)
    /\ expiredSeen' = IF written THEN expiredSeen \ cells ELSE expiredSeen
    /\ UNCHANGED <<now, ownership, storedOwnership, listeners, shape>>

\* handleSubmit resumed after processDonation, the payment accepted, up to the
\* second await (generateReceipt)
PaymentAccepted(i) ==
    /\ pending[i].phase = "payment" /\ FirstInPhase(i)
    /\ ProcessDonation(pending[i])
    /\ CommitClaim(pending[i].squares, pending[i].color)
    /\ pending' = [pending EXCEPT ![i].phase = "receipt", ![i].txn = nextTxn]
    /\ UNCHANGED <<uiVars, modal, modalSquares>>

\* a whole accepted donation of `cells`, seen from the ledger: the commit of
\* handleSubmit with the donation modal left out
Claim(cells, color) ==
    /\ nextTxn <= MaxTxn
    /\ CommitClaim(cells, color)
    /\ UNCHANGED <<uiVars, modal, modalSquares, pending>>

\* an accepted donation whose commit throws, seen from the ledger
ClaimFails(cells, color) ==
    /\ nextTxn <= MaxTxn
    /\ CommitFails(cells, color)
    /\ UNCHANGED <<uiVars, modal, modalSquares, pending>>

\* handleSubmit resumed after generateReceipt: showSuccess on this.modal (throws
\* when the modal was hidden), then onComplete(true) -> clearSelection()
ReceiptReturns(i) ==
    /\ pending[i].phase = "receipt" /\ FirstInPhase(i)
    /\ pending' = RemoveAt(pending, i)
    /\ modal' = IF modal = "none" THEN "none" ELSE "success"
    /\ selectedSquares' = IF modal = "none" THEN selectedSquares ELSE {}
    /\ needsRedraw' = (needsRedraw \/ modal # "none")
    /\ events' = <<>>
    /\ UNCHANGED <<cameraVars, hostVars>>
    /\ last' = Op("receipt", NoKey, pending[i].squares, pending[i].color,
                  pending[i].txn, modal # "none")
    /\ UNCHANGED <<now, ledgerVars, selectionStart, isDragging, isSelecting, isPainting,
                   isPaintMode, isEraseMode, paintColor, modalSquares, nextTxn, expiredSeen>>

\* -------------------------------------------------------------------- Next
\* grids importState is called with: empty, or one square of any expiry
ImportGrids ==
    {EmptyGrid} \cup
    {[k \in {c} |-> [Square(c, "#FF0000", 0) EXCEPT !.expiryTime = e]] :
        c \in InputCells, e \in 0 .. MaxTime}

ClaimCells == (SUBSET InputCells) \ {{}}

\* coordinates a direct caller passes: the input window and the first column
\* past the grid's edge
ApiCells == InputCells \cup {<<GridSize, 0>>}

\* direct calls of the ledger's other public methods by the embedding page
NextApi ==
    \/ Tick
    \/ \E g \in ImportGrids : ImportState(g)
    \/ \E k \in ApiCells : RemoveSquare(k)
    \/ \E k \in ApiCells, c \in Colors : SetSquare(k, c)
    \/ ClearAll

SpecApi == Init /\ [][NextApi]_vars

\* the ledger under the operations the widget performs on it, the donation
\* modal reduced to its commit and the paint gesture to its recolor
Next ==
    \/ Tick
    \/ Construct
    \/ CleanupTimer
    \/ \E k \in InputCells : IsSquareAvailable(k)
    \/ \E cells \in ClaimCells, c \in Colors : Claim(cells, c)
    \/ \E k \in InputCells, c \in Colors, req \in 1 .. MaxTxn : UpdateSquareColor(k, c, req)
    \/ RenderFrame

Spec == Init /\ [][Next]_vars

\* the paint gesture over the ledger: primary-button pointer events without
\* modifier, the paint panel, and donations of the first cell
PaintClaimCells == {{<<0, 0>>}}

NextPaint ==
    \/ Tick
    \/ \E cells \in PaintClaimCells, c \in Colors : Claim(cells, c)
    \/ \E p \in PointerCells : HandleMouseDown(p, 0, FALSE)
    \/ \E p \in PointerCells : HandleMouseMove(p)
    \/ HandleMouseUp
    \/ HandleMouseLeave
    \/ PaintModeClick
    \/ \E c \in Colors : PaintColorInput(c)
    \/ EraserClick

SpecPaint == Init /\ [][NextPaint]_vars

\* click selection, the donation modal and handleSubmit over the ledger, every
\* donation made with the first preset color
NextDonate ==
    \/ Tick
    \/ \E p \in PointerCells : HandleMouseDown(p, 0, FALSE)
    \/ HandleMouseUp
    \/ DonateClick
    \/ HideModal
    \/ \E ok \in BOOLEAN : Submit("#FF0000", ok)
    \/ \E i \in 1 .. Len(pending) : PaymentRefused(i)
    \/ \E i \in 1 .. Len(pending) : PaymentAccepted(i)
    \/ \E i \in 1 .. Len(pending) : ReceiptReturns(i)

SpecDonate == Init /\ [][NextDonate]_vars

\* page loads over any content of the two storage keys, and the ledger's
\* operations on what was loaded
NextLoad ==
    \/ Tick
    \/ \E gc \in GridContents, oc \in OwnershipContents : ConstructOver(gc, oc)
    \/ \E k \in InputCells : IsSquareAvailable(k)
    \/ \E k \in InputCells, c \in Colors : UpdateSquareColor(k, c, 0)
    \/ \E cells \in ClaimCells : Claim(cells, "#FF0000")
    \/ \E cells \in ClaimCells : ClaimFails(cells, "#FF0000")

SpecLoad == Init /\ [][NextLoad]_vars

\* DonationModal used directly: show() with any list of squares, the empty one
\* included, then the form and handleSubmit
NextModal ==
    \/ Tick
    \/ \E cells \in SUBSET InputCells : Show(cells)
    \/ HideModal
    \/ \E c \in Colors, ok \in BOOLEAN : Submit(c, ok)
    \/ \E i \in 1 .. Len(pending) : PaymentRefused(i)
    \/ \E i \in 1 .. Len(pending) : PaymentAccepted(i)
    \/ \E i \in 1 .. Len(pending) : ReceiptReturns(i)

SpecModal == Init /\ [][NextModal]_vars

\* the life of one instance on the host page: donations while it is mounted,
\* ShieldCanvas.destroy, and the callbacks the page's timers still deliver
NextTeardown ==
    \/ Tick
    \/ \E cells \in ClaimCells, c \in Colors : instance /\ Claim(cells, c)
    \/ CleanupTimer
    \/ RenderFrame
    \/ ButtonPoll
    \/ Destroy

SpecTeardown == Init /\ [][NextTeardown]_vars

\* canvas pixels of wheel and pan events, and the distance of one pan move
CameraPoints == {<<233, 171>>}
AnchorPoints == CameraPoints \cup {<<0, 0>>, <<17, 300>>}
PanDeltas == {<<3, -2>>}

\* both mouse buttons over a ledger holding at most one donation: presses with
\* and without modifier, moves of one pan distance, releases, leaving the
\* canvas, and the paint-mode button
NextPointer ==
    \/ \E cells \in PaintClaimCells : nextTxn = 1 /\ Claim(cells, "#FF0000")
    \/ \E p \in PointerCells, button \in {0, 2}, mod \in BOOLEAN : HandleMouseDown(p, button, mod)
    \/ \E p \in PointerCells, d \in PanDeltas : HandleMouseMoveBy(p, d)
    \/ HandleMouseUp
    \/ HandleMouseLeave
    \/ PaintModeClick

SpecPointer == Init /\ [][NextPointer]_vars

\* the clear-my-squares button over a ledger that holds the session's donations
\* and entries no ownership record covers (written by setSquare), with
\* primary-button presses and the paint-mode button
NextClear ==
    \/ Tick
    \/ \E cells \in ClaimCells : Claim(cells, "#FF0000")
    \/ \E k \in InputCells : SetSquare(k, "#00FF00")
    \/ \E p \in InputCells : HandleMouseDown(p, 0, FALSE)
    \/ PaintModeClick
    \/ ClearMySquaresClick

SpecClear == Init /\ [][NextClear]_vars

\* two instances on one page, donations made through either
NextPeers ==
    \/ Tick
    \/ PeerInit
    \/ \E cells \in ClaimCells : Claim(cells, "#FF0000")
    \/ \E cells \in ClaimCells : PeerClaim(cells, "#00FF00")

SpecPeers == Init /\ [][NextPeers]_vars

\* importState called by the embedding page with good and bad text, between
\* donations
NextImport ==
    \/ Tick
    \/ \E g \in ImportGrids : ImportState(g)
    \/ \E content \in FailingImports : ImportStateFails(content)
    \/ \E cells \in ClaimCells, c \in Colors : Claim(cells, c)
    \/ \E cells \in ClaimCells, c \in Colors : ClaimFails(cells, c)

SpecImport == Init /\ [][NextImport]_vars

\* the same life with the interval timer of startCleanupTimer delivering its
\* callback again and again for as long as it is scheduled
SpecSweep == Init /\ [][NextTeardown]_vars /\ WF_vars(CleanupTimer)

\* the camera: wheel zoom, the zoom, center and transaction buttons, window
\* resizes and a right-button pan, over a ledger holding at most one donation
NextCamera ==
    \/ \E cells \in PaintClaimCells : nextTxn = 1 /\ Claim(cells, "#FF0000")
    \/ \E pt \in CameraPoints, deltaY \in {0 - 1, 1} : HandleWheel(pt, deltaY)
    \/ ZoomInClick
    \/ ZoomOutClick
    \/ CenterClick
    \/ \E size \in CanvasSizes : Resize(size)
    \/ \E i \in 1 .. Len(ownership) : NavigateToTransaction(i)
    \/ \E pt \in CameraPoints : HandleMouseDown(CellAt(pt), 2, FALSE)
    \/ \E pt \in CameraPoints, d \in PanDeltas : HandleMouseMoveBy(CellAt(pt), d)

SpecCamera == Init /\ [][NextCamera]_vars

\* ================================================================== claims
\* the ownership record a live cell is currently claimed under: the last one
\* added that lists it
CurrentOwner(own, k) ==
    CHOOSE i \in 1 .. Len(own) :
        /\ k \in own[i].squares
        /\ \A j \in i + 1 .. Len(own) : k \notin own[j].squares

\* C3: after a StateManager is constructed over a persisted grid, every
\* persisted cell whose expiry time is still in the future is present,
\* unchanged, in the in-memory grid, also when the persisted grid holds
\* expired entries.
C3_RestoreKeepsLiveCells ==
    last.op = "construct" =>
        \A k \in DOMAIN stored :
            stored[k].expiryTime > now => HasSquare(grid, k) /\ grid[k] = stored[k]

\* C4: a cell entry is expired as soon as now >= expiryTime, now = expiryTime
\* included: isSquareAvailable then returns true and a sweep removes the entry.
C4_ExpiredAtThreshold ==
    /\ last.op = "isSquareAvailable" /\ ~last.result => grid[last.key].expiryTime > now
    /\ last.op = "cleanup" => \A k \in DOMAIN grid : grid[k].expiryTime > now

\* C6: a recolor or a paint / erase gesture on a cell whose entry has expired
\* and has not been purged yet returns false and changes nothing.
C6_NoRecolorOfExpired ==
    (last.op \in {"updateSquareColor", "paintSquare"} /\ last.key \in last.had \ last.live)
        => ~last.result

\* C7: a successful updateSquareColor changes only the color of its cell: the
\* cell's expiryTime, timestamp, coordinates and email, every other cell entry
\* and every ownership record are as before.
C7_RecolorKeepsLock ==
    [][(last'.op = "updateSquareColor" /\ last'.result) =>
          LET k == last'.key IN
          /\ DOMAIN grid' = DOMAIN grid
          /\ \A j \in (DOMAIN grid) \ {k} : grid'[j] = grid[j]
          /\ grid'[k].color = last'.color
          /\ grid'[k].expiryTime = grid[k].expiryTime
          /\ grid'[k].timestamp = grid[k].timestamp
          /\ grid'[k].x = grid[k].x /\ grid'[k].y = grid[k].y
          /\ grid'[k].email = grid[k].email
          /\ ownership' = ownership
          /\ storedOwnership' = storedOwnership]_vars

\* a recolor that changed the color of one cell while another cell is held
C7_Witness ==
    /\ last.op = "updateSquareColor" /\ last.result
    /\ grid[last.key].color # GetOriginalColor(ownership, last.key)
    /\ Cardinality(DOMAIN grid) > 1

C1_ClaimAtomicity ==
    [][(last'.op = "claim" /\ last'.live # {}) =>
          /\ ~last'.result
          /\ grid' = grid
          /\ ownership' = ownership]_vars

C9_EraseRestoresCurrentOriginal ==
    (/\ last.op = "paintSquare" /\ isEraseMode
     /\ last.key \in last.live
     /\ LET cur == CurrentOwner(ownership, last.key) IN
        \A i \in 1 .. cur - 1 :
            last.key \in ownership[i].squares =>
                ownership[i].timestamp + LockDuration < ownership[cur].timestamp) =>
        grid[last.key].color = ownership[CurrentOwner(ownership, last.key)].originalColor

\* C10: after a successful claim of cells C with color c at clock value now,
\* every cell of C holds an entry with color c, timestamp now and expiryTime
\* now + lockDuration, one ownership record was added with squares C and
\* originalColor c, listeners were notified, and every other cell entry and
\* ownership record is as before.
C10_ClaimPostcondition ==
    [][(last'.op = "claim" /\ last'.result) =>
          LET C == last'.cells
              c == last'.color
              r == ownership'[Len(ownership')]
          IN
          /\ \A k \in C : /\ k \in DOMAIN grid'
                          /\ grid'[k].color = c
                          /\ grid'[k].timestamp = now
                          /\ grid'[k].expiryTime = now + LockDuration
          /\ DOMAIN grid' = (DOMAIN grid) \cup C
          /\ \A k \in (DOMAIN grid) \ C : grid'[k] = grid[k]
          /\ Len(ownership') = Len(ownership) + 1
          /\ \A i \in 1 .. Len(ownership) :
                ownership'[i] = ownership[i] /\ ownership[i].id # r.id
          /\ r.id = last'.txn /\ r.squares = C /\ r.originalColor = c
          /\ Len(events') > 0
          /\ needsRedraw']_vars

\* a claim of one cell that overwrote its entry while another cell holds one
C10_Witness ==
    /\ last.op = "claim" /\ last.result
    /\ last.had # {}
    /\ (DOMAIN grid) \ last.cells # {}
    /\ Len(ownership) > 1

\* C11: the cell entries of a claim and its ownership record are created
\* atomically: no listener notification of the commit is delivered on a ledger
\* that holds the entries written by the claim but not the claim's record.
C11_ClaimObservedAtomically ==
    [][(last'.op = "claim" /\ last'.result) =>
          LET N == ClaimNotifications(grid, ownership, last'.txn, last'.cells,
                                      last'.color, now)
          IN \A i \in 1 .. Len(N) :
                (\E k \in last'.cells :
                    k \in DOMAIN N[i].grid /\ N[i].grid[k].timestamp = now) =>
                (\E j \in 1 .. Len(N[i].ownership) : N[i].ownership[j].id = last'.txn)]_vars

\* C12: a claim with an empty cell list is rejected, creating no cell entry
\* and no ownership record, so every ownership record lists at least one
\* coordinate.
C12_EmptyClaimRejected ==
    [][/\ (last'.op = "claim" /\ last'.cells = {}) =>
              ~last'.result /\ grid' = grid /\ ownership' = ownership
       /\ \A i \in 1 .. Len(ownership') : ownership'[i].squares # {}]_vars

\* a donation of no squares was refused while the ledger holds earlier claims
C12_Witness ==
    /\ last.op = "claim" /\ last.cells = {} /\ ~last.result
    /\ Len(ownership) > 0
    /\ grid # EmptyGrid

\* C13: a coordinate whose cell entry is live is listed by at most one
\* ownership record, after any sequence of claims, expiries, sweeps and
\* re-claims in which every re-claim follows the expiry of the claim before it.
C13_OneRecordPerLiveCell ==
    \A k \in DOMAIN grid :
        LET listing == {i \in 1 .. Len(ownership) : k \in ownership[i].squares} IN
        (/\ ~(grid[k].expiryTime # 0 /\ grid[k].expiryTime < now)
         /\ \A i, j \in listing :
               i < j => ownership[i].timestamp + LockDuration < ownership[j].timestamp)
            => Cardinality(listing) <= 1

\* C14: the ledger rejects coordinates outside [0, gridSize) before any
\* mutation, so the grid never holds an entry whose coordinates are outside
\* that range.
C14_NoEntryOutOfBounds ==
    \A k \in DOMAIN grid :
        /\ 0 <= k[1] /\ k[1] < GridSize
        /\ 0 <= k[2] /\ k[2] < GridSize

C16_CorruptStorageRecovered ==
    /\ last.op = "construct" => shape.grid = "object" /\ shape.ownership = "object"
    /\ (last.op = "claim" /\ last.txn # 0) => last.result

C19_ClaimedCellsAvailableAtCommit ==
    (last.op = "claim" /\ last.result) => last.cells \cap last.live = {}

\* C20: a pointer-up or a pointer-leave brings the interaction state machine to
\* Idle: isSelecting, isDragging and isPainting are all false and the drag
\* anchor is cleared.
C20_GestureEndsIdle ==
    last.op \in {"mouseUp", "mouseLeave"} =>
        /\ ~isSelecting /\ ~isDragging /\ ~isPainting
        /\ selectionStart = NoKey

\* C21: after setPaintMode(false) isPainting is false, whatever the state it
\* was called in; while paint mode is off no gesture is painting and no
\* pointer event recolors a cell; isPainting rises again only on a pointer-down
\* made in paint mode on an in-grid cell that has an entry and is listed in an
\* ownership record.
C21_PaintModeOffStopsPainting ==
    [][/\ ~isPaintMode' => ~isPainting'
       /\ last'.op = "paintSquare" => isPaintMode
       /\ (/\ last'.op \in {"mouseDown", "mouseMove", "mouseUp", "mouseLeave", "paintSquare"}
           /\ \E k \in DOMAIN grid \cap DOMAIN grid' : grid'[k].color # grid[k].color)
              => isPaintMode
       /\ (~isPainting /\ isPainting') =>
              /\ isPaintMode
              /\ last'.op = "paintSquare"
              /\ last'.key \in Coords \cap DOMAIN grid
              /\ \E i \in 1 .. Len(ownership) : last'.key \in ownership[i].squares]_vars

\* paint mode was switched off in the middle of a paint gesture
C21_Witness ==
    /\ last.op = "setPaintMode" /\ last.result
    /\ ~isPaintMode /\ ~isPainting

C23_SelectionClearedAfterClaim ==
    (last.op = "receipt" /\ last.txn > 0) => selectedSquares = {}

\* C24: immediately after paint mode is switched on or off with the paint-mode
\* button, the selection set is empty.
C24_SelectionClearedOnModeSwitch ==
    last.op = "setPaintMode" => selectedSquares = {}

C30_NoCallbackAfterDestroy ==
    ~instance => last.op \notin {"cleanup", "render", "poll"}

\* C25: in every reachable state minScale <= scale <= maxScale, whatever wheel
\* zooms, zoom button clicks, center-view and transaction navigations came
\* before.
C25_ScaleWithinBounds ==
    /\ Sub(scale, MinScale).m >= 0
    /\ Sub(MaxScale, scale).m >= 0

\* a zoom-out click that was cut off at minScale
C25_Witness ==
    /\ last.op = "zoomOut" /\ last.result
    /\ scale = MinScale

\* C26: a wheel zoom at screen point p leaves screenToGrid(p) within one cell of
\* what it was before the zoom, on both axes and in both wheel directions; a
\* wheel event that cannot change the scale, because it is already at its bound,
\* changes neither the scale nor the offset. The first conjunct is about the
\* wheel event that was dispatched, the second about every wheel event that could
\* be dispatched in the state at the points of AnchorPoints.
C26_AnchorPreservingZoom ==
    [][/\ last'.op = "wheel" =>
            /\ \A pt \in last'.cells :
                  /\ Abs(ScreenToGrid(pt[1], offsetX', scale') - last'.key[1]) <= 1
                  /\ Abs(ScreenToGrid(pt[2], offsetY', scale') - last'.key[2]) <= 1
            /\ ~last'.result => <<scale', offsetX', offsetY'>> = <<scale, offsetX, offsetY>>
       /\ \A pt \in AnchorPoints, deltaY \in {0 - 1, 1} :
            LET s2 == WheelScale(scale, deltaY)
                ox == WheelOffset(pt[1], offsetX, scale, s2)
                oy == WheelOffset(pt[2], offsetY, scale, s2)
            IN  s2 # scale =>
                  /\ Abs(ScreenToGrid(pt[1], ox, s2) - ScreenToGrid(pt[1], offsetX, scale)) <= 1
                  /\ Abs(ScreenToGrid(pt[2], oy, s2) - ScreenToGrid(pt[2], offsetY, scale)) <= 1]_vars

\* a wheel zoom that changed the scale of a view that had been panned before
C26_Witness ==
    /\ last.op = "wheel" /\ last.result
    /\ scale # InitialScale
    /\ offsetX # CenterOffset(canvasWidth, scale)

\* C27: in every camera state, for every cell (x, y) of the grid, screenToGrid
\* applied to the canvas position gridToScreen(x, y) gives back (x, y).
C27_CoordinateInverse ==
    \A x \in 0 .. GridSize - 1 :
        /\ ScreenToGridNumber(GridToScreen(x, offsetX, scale), offsetX, scale) = x
        /\ ScreenToGridNumber(GridToScreen(x, offsetY, scale), offsetY, scale) = x

\* C28: in every camera state and for every canvas size the visible range of a
\* draw pass satisfies 0 <= startX, startY and endX, endY <= gridSize, and every
\* cell the pass reads or draws is a cell of the grid that lies inside that range.
C28_CullingCorrectness ==
    /\ VisibleStart(offsetX, scale) >= 0 /\ VisibleStart(offsetY, scale) >= 0
    /\ VisibleEnd(canvasWidth, offsetX, scale) <= GridSize
    /\ VisibleEnd(canvasHeight, offsetY, scale) <= GridSize
    /\ \A k \in RenderReads(canvasWidth, canvasHeight, offsetX, offsetY, scale, ownership) :
          /\ IsValidGridCoord(k)
          /\ VisibleStart(offsetX, scale) <= k[1] /\ k[1] < VisibleEnd(canvasWidth, offsetX, scale)
          /\ VisibleStart(offsetY, scale) <= k[2] /\ k[2] < VisibleEnd(canvasHeight, offsetY, scale)

\* C31: while the instance is mounted and its sweep timer keeps firing, every
\* cell entry whose lock has run out is eventually gone from the grid although
\* nobody queries the cell, and every sweep that removed an entry leaves the
\* redraw flag set.
C31_SweepLiveness ==
    /\ \A k \in InputCells :
          (HasSquare(grid, k) /\ IsExpired(grid[k], now))
              ~> (~instance \/ ~HasSquare(grid, k) \/ ~IsExpired(grid[k], now))
    /\ [][(last'.op = "cleanup" /\ grid' # grid) => needsRedraw']_vars

\* a sweep of the mounted instance that removed an expired entry after a frame
\* had been drawn
C31_Witness ==
    /\ last.op = "cleanup" /\ last.cells # {}
    /\ instance /\ needsRedraw
    /\ last.cells \cap DOMAIN grid = {}

\* C32: a secondary-button pointer-down starts a pan in whatever state it
\* arrives, and while the pan lasts (isDragging, which only pointer-up and
\* pointer-leave end) every pointer-move adds the pointer's delta to the offset
\* and changes neither the scale, nor the selection, nor the color of any cell.
C32_SecondaryDownPans ==
    [][/\ last'.op = "secondaryDown" => isDragging'
       /\ (isDragging /\ last'.op \in {"mouseMove", "paintSquare"}) =>
            /\ \E d \in PanDeltas :
                  /\ offsetX' = Add(offsetX, FromInt(d[1]))
                  /\ offsetY' = Add(offsetY, FromInt(d[2]))
            /\ scale' = scale
            /\ selectedSquares' = selectedSquares
            /\ \A k \in DOMAIN grid :
                  HasSquare(grid', k) /\ grid'[k].color = grid[k].color]_vars

\* C33: a primary pointer-down without modifier on an available cell of the grid
\* flips that cell's membership in the selection and no other cell's, and
\* neither a pointer-move that stays on that cell, the cell still available, nor
\* the pointer-up changes the selection again.
C33_SingleCellToggle ==
    [][/\ (/\ last'.op = "mouseDown" /\ ~isPaintMode
           /\ IsValidGridCoord(last'.key) /\ AvailableResult(grid, last'.key, now)) =>
            /\ (last'.key \in selectedSquares') # (last'.key \in selectedSquares)
            /\ selectedSquares' \ {last'.key} = selectedSquares \ {last'.key}
       /\ (/\ last'.op = "mouseMove" /\ isSelecting /\ ~isDragging /\ ~isPainting
           /\ last'.key = selectionStart /\ AvailableResult(grid, selectionStart, now)) =>
            selectedSquares' = selectedSquares
       /\ last'.op = "mouseUp" => selectedSquares' = selectedSquares]_vars

\* C36: in every reachable state at most one of isDragging, isSelecting and
\* isPainting is true.
C36_GestureStatesExclusive ==
    /\ ~(isDragging /\ isSelecting)
    /\ ~(isDragging /\ isPainting)
    /\ ~(isSelecting /\ isPainting)

\* C34: a confirmed clear of the session's squares removes every cell entry an
\* ownership record covered, leaves the ownership ledger empty in memory and in
\* storage, paint mode off and the selection empty, and leaves every entry no
\* ownership record covered as it was, in memory and in the persisted grid.
C34_ClearMySquares ==
    [][last'.op = "clearMySquares" =>
         /\ \A i \in 1 .. Len(ownership) : \A k \in ownership[i].squares : ~HasSquare(grid', k)
         /\ ownership' = <<>> /\ storedOwnership' = <<>>
         /\ ~isPaintMode' /\ selectedSquares' = {}
         /\ \A k \in DOMAIN grid :
               (\A i \in 1 .. Len(ownership) : k \notin ownership[i].squares) =>
                   HasSquare(grid', k) /\ grid'[k] = grid[k]
         /\ stored' = grid']_vars

\* a clear that removed the squares of two donations and left an entry of
\* another origin in place
C34_Witness ==
    /\ last.op = "clearMySquares"
    /\ last.had # {} /\ nextTxn = 3
    /\ grid # EmptyGrid
    /\ ownership = <<>> /\ ~isPaintMode

\* C35: after a navigation to a transaction the scale is at most 4, the
\* bounding box of the transaction's cells widened by 5 cells on every side lies
\* inside the canvas, and the center of the bounding box is drawn at the center
\* of the canvas (each to within one pixel of rounding).
C35_FitAndCenter ==
    last.op = "navigate" =>
        LET xs == {k[1] : k \in last.cells}
            ys == {k[2] : k \in last.cells}
            minX == CHOOSE v \in xs : \A u \in xs : v <= u
            maxX == CHOOSE v \in xs : \A u \in xs : v >= u
            minY == CHOOSE v \in ys : \A u \in ys : v <= u
            maxY == CHOOSE v \in ys : \A u \in ys : v >= u
            midX == Div(Add(GridToScreen(minX, offsetX, scale),
                            GridToScreen(maxX + 1, offsetX, scale)), FromInt(2))
            midY == Div(Add(GridToScreen(minY, offsetY, scale),
                            GridToScreen(maxY + 1, offsetY, scale)), FromInt(2))
        IN
        /\ Sub(FromInt(4), scale).m >= 0
        /\ Floor(GridToScreen(minX - 5, offsetX, scale)) >= 0 - 1
        /\ Floor(GridToScreen(minY - 5, offsetY, scale)) >= 0 - 1
        /\ Ceil(GridToScreen(maxX + 1 + 5, offsetX, scale)) <= canvasWidth + 1
        /\ Ceil(GridToScreen(maxY + 1 + 5, offsetY, scale)) <= canvasHeight + 1
        /\ Floor(Sub(midX, Div(FromInt(canvasWidth), FromInt(2)))) \in {0 - 1, 0}
        /\ Floor(Sub(midY, Div(FromInt(canvasHeight), FromInt(2)))) \in {0 - 1, 0}

\* C37: with two instances on one page, a cell claimed through one of them and
\* not yet expired keeps its entry in persistent storage, whatever the other
\* instance saves.
C37_NoLostUpdate ==
    /\ \A k \in OwnedSquares(grid, ownership) :
          ~IsExpired(grid[k], now) => (HasSquare(stored, k) /\ stored[k] = grid[k])
    /\ \A k \in OwnedSquares(peer.grid, peer.ownership) :
          ~IsExpired(peer.grid[k], now) => (HasSquare(stored, k) /\ stored[k] = peer.grid[k])

\* C38: a call of importState that returns false leaves the in-memory grid and
\* the persisted grid as they were and notifies no listener, and donations
\* made afterwards are still committed.
C38_FailedImportChangesNothing ==
    [][/\ (last'.op = "importState" /\ ~last'.result) =>
            /\ grid' = grid /\ shape' = shape
            /\ stored' = stored
            /\ events' = <<>> /\ needsRedraw' = needsRedraw
       /\ last'.op = "claim" => last'.result]_vars

\* C39: when the confirmation of the payment arrives for a donation whose modal
\* was closed while the confirmation was pending, no cell entry and no
\* ownership record is created.
C39_DismissedDonationDoesNotClaim ==
    [][\A i \in 1 .. Len(pending) :
          (/\ pending[i].phase = "payment" /\ ~pending[i].attached
           /\ modal = "none"
           /\ Len(pending') = Len(pending) /\ pending'[i].phase = "receipt") =>
              /\ grid' = grid /\ stored' = stored
              /\ ownership' = ownership /\ storedOwnership' = storedOwnership]_vars

\* C40: after every completed ledger operation (construction, claim, recolor,
\* availability query, timer sweep, import, clear-all) the grid stored under
\* the persistence key equals the in-memory grid.
C40_PersistedMirrorsMemory ==
    last.op \in {"construct", "claim", "updateSquareColor", "isSquareAvailable",
                 "cleanup", "importState", "clearAll"} =>
        stored = grid

====
